---- MODULE Spec2Model ----
(***************************************************************************)
(* A model of the cryo crate: the three lock backends (LocalLock,          *)
(* AtomicLock, SyncLock), the guarded cell (Cryo / CryoMut) and its guards *)
(* (CryoMutReadGuard = CryoRef, CryoMutWriteGuard).                        *)
(*                                                                         *)
(* Thread 0 is the thread that creates (and later drops) the cell.  The    *)
(* machine word is scaled down to WordBits bits; all counter arithmetic    *)
(* wraps modulo 2^WordBits as usize arithmetic does in a release build.    *)
(* Atomic operations are sequentially consistent steps; everything a       *)
(* thread does between two accesses to shared memory belongs to one step.  *)
(***************************************************************************)
EXTENDS Integers, FiniteSets, Sequences, TLC

\* ------------------------------------------------------------------ bounds

\* width of usize in the model
WordBits == 4

\* number of threads besides the creator thread
NOther == 2

\* number of mem::replace calls made through write guards
MaxWrites == 2

\* number of guards that may be live at the same time
MaxGuards == 5

Threads == 0 .. NOther
Creator == 0
Others == Threads \ {Creator}

Pow2(n) == 2 ^ n
Word == Pow2(WordBits)
usize_max == Word - 1

\* wrapping arithmetic of usize
WAdd(a, b) == (a + b) % Word
WSub(a, b) == (a - b + Word) % Word

\* ------------------------------------------------------ program constants

\* lock/local.rs
EXCLUSIVE == usize_max

\* lock/panicking.rs: !(usize::max_value() >> 1)
Atomic_EXCLUSIVE_FLAG == Pow2(WordBits - 1)

\* lock/stdimp.rs: !(usize::max_value() >> 1) and PARKED_FLAG >> 1
PARKED_FLAG == Pow2(WordBits - 1)
EXCLUSIVE_FLAG == PARKED_FLAG \div 2
PARKED_FLAG_P1 == PARKED_FLAG + 1

Backends == {"Local", "Atomic", "Sync"}

\* ------------------------------------------------------------------- state

VARIABLES
    backend,   \* which Lock implementation the cell was built with
    count,     \* State::lock.count
    token,     \* token[t]: the park token of thread t (set by Thread::unpark)
    cell,      \* "alive" until the drop of the Cryo/CryoMut has ended
    value,     \* the referent *State::data
    nrep,      \* number of completed mem::replace calls
    rg,        \* rg[t]: live read guards owned by thread t
    wg,        \* wg[t]: live write guards owned by thread t
    op,        \* op[t]: the public operation thread t is executing
    pc,        \* pc[t]: its position inside that operation
    old,       \* old[t]: a local of the lock function (old_count, or the replaced value)
    last,      \* the event of the last step: who finished which operation how
    ub         \* kinds of accesses to the cell made after it was destroyed

vars == <<backend, count, token, cell, value, nrep, rg, wg, op, pc, old, last, ub>>

NoEvent == [t |-> Creator, op |-> "none", res |-> "step", obs |-> 0]

Event(t, o, res, obs) == [t |-> t, op |-> o, res |-> res, obs |-> obs]

Idle(t) == pc[t] = "idle"

TotalRead == LET S[n \in 0 .. NOther + 1] ==
                     IF n = 0 THEN 0 ELSE S[n - 1] + rg[n - 1]
             IN S[NOther + 1]

TotalWrite == LET S[n \in 0 .. NOther + 1] ==
                      IF n = 0 THEN 0 ELSE S[n - 1] + wg[n - 1]
              IN S[NOther + 1]

Init ==
    /\ backend \in Backends
    /\ count = 0
    /\ token = [t \in Threads |-> FALSE]
    /\ cell = "alive"
    /\ value = 0
    /\ nrep = 0
    /\ rg = [t \in Threads |-> 0]
    /\ wg = [t \in Threads |-> 0]
    /\ op = [t \in Threads |-> "none"]
    /\ pc = [t \in Threads |-> "idle"]
    /\ old = [t \in Threads |-> 0]
    /\ last = NoEvent
    /\ ub = {}

\* ------------------------------------------------- bookkeeping of a step

CellOps == {"read", "try_read", "write", "try_write", "try_get_mut", "drop_cell"}

\* guards created or consumed by thread t in this step
Guards(t, dr, dw) ==
    /\ rg' = [rg EXCEPT ![t] = @ + dr]
    /\ wg' = [wg EXCEPT ![t] = @ + dw]

\* thread t stays inside operation o and moves to position l
Continue(t, o, l, v) ==
    /\ pc' = [pc EXCEPT ![t] = l]
    /\ op' = [op EXCEPT ![t] = o]
    /\ old' = [old EXCEPT ![t] = v]
    /\ last' = NoEvent
    /\ cell' = cell

\* operation o of thread t ends with result res; the drop of the cell ends the
\* cell's life whether lock_exclusive returned or panicked (the unwinding frees
\* the cell all the same)
Return(t, o, res, obs) ==
    /\ pc' = [pc EXCEPT ![t] = "idle"]
    /\ op' = [op EXCEPT ![t] = "none"]
    /\ old' = [old EXCEPT ![t] = 0]
    /\ last' = Event(t, o, res, obs)
    /\ cell' = IF o = "drop_cell" THEN "destroyed" ELSE cell

\* a lock_shared / try_lock_shared / lock_exclusive / try_lock_exclusive call made
\* by operation o has ended with res: build the guard, or fail
LockDone(t, o, res, obs) ==
    IF o = "try_get_mut" /\ res = "ok"
    THEN \* the temporary write guard of try_get_mut; its drop comes next
         /\ Guards(t, 0, 1)
         /\ Continue(t, o, "tgm_unlock", 0)
    ELSE IF o = "fmt" /\ res = "ok"
    THEN \* the read guard taken by Debug::fmt; it is dropped when fmt returns
         /\ Guards(t, 1, 0)
         /\ Continue(t, o, "fmt_unlock", obs)
    ELSE /\ Guards(t,
                   IF res = "ok" /\ o \in {"read", "try_read", "clone"} THEN 1 ELSE 0,
                   IF res = "ok" /\ o \in {"write", "try_write"} THEN 1 ELSE 0)
         /\ Return(t, o, res, obs)

\* ------------------------------------------------------------- LocalLock

\* lock_shared that refuses only the overflow value, not the exclusive sentinel
Local_lock_shared_overflow_only(t, o) ==
    /\ token' = token
    /\ IF count = EXCLUSIVE - 1
       THEN /\ count' = count
            /\ LockDone(t, o, "deadlock", count)
       ELSE /\ count' = WAdd(count, 1)
            /\ LockDone(t, o, "ok", count)

Local_lock_shared(t, o) ==
    /\ token' = token
    /\ IF count >= EXCLUSIVE - 1
       THEN /\ count' = count
            /\ LockDone(t, o, "deadlock", count)
       ELSE /\ count' = count + 1
            /\ LockDone(t, o, "ok", count)

\* try_lock_shared that refuses the exclusive sentinel only, not the value below
Local_try_lock_shared_sentinel_only(t, o) ==
    /\ token' = token
    /\ IF count = EXCLUSIVE
       THEN /\ count' = count
            /\ LockDone(t, o, "fail", count)
       ELSE /\ count' = WAdd(count, 1)
            /\ LockDone(t, o, "ok", count)

Local_try_lock_shared(t, o) ==
    /\ token' = token
    /\ IF count >= EXCLUSIVE - 1
       THEN /\ count' = count
            /\ LockDone(t, o, "fail", count)
       ELSE /\ count' = count + 1
            /\ LockDone(t, o, "ok", count)

Local_unlock_shared(t, o, dr) ==
    /\ token' = token
    /\ count' = WSub(count, 1)
    /\ Guards(t, dr, 0)
    /\ Return(t, o, "ok", count)

\* lock_exclusive that refuses only when the lock is exclusively held
Local_lock_exclusive_writers_only(t, o) ==
    /\ token' = token
    /\ IF count = EXCLUSIVE
       THEN /\ count' = count
            /\ LockDone(t, o, "deadlock", count)
       ELSE /\ count' = EXCLUSIVE
            /\ LockDone(t, o, "ok", count)

Local_lock_exclusive(t, o) ==
    /\ token' = token
    /\ IF count # 0
       THEN /\ count' = count
            /\ LockDone(t, o, "deadlock", count)
       ELSE /\ count' = EXCLUSIVE
            /\ LockDone(t, o, "ok", count)

\* try_lock_exclusive that refuses only when the lock is exclusively held
Local_try_lock_exclusive_writers_only(t, o) ==
    /\ token' = token
    /\ IF count = EXCLUSIVE
       THEN /\ count' = count
            /\ LockDone(t, o, "fail", count)
       ELSE /\ count' = EXCLUSIVE
            /\ LockDone(t, o, "ok", count)

Local_try_lock_exclusive(t, o) ==
    /\ token' = token
    /\ IF count # 0
       THEN /\ count' = count
            /\ LockDone(t, o, "fail", count)
       ELSE /\ count' = EXCLUSIVE
            /\ LockDone(t, o, "ok", count)

Local_unlock_exclusive(t, o, dw) ==
    /\ token' = token
    /\ count' = 0
    /\ Guards(t, 0, dw)
    /\ Return(t, o, "ok", count)

\* ------------------------------------------------------------ AtomicLock

\* operations that go through the try_ functions of the lock
IsTry(o) == o \in {"try_read", "try_write", "try_get_mut", "fmt"}

\* try_lock_shared that lets the reader count use all the bits below the flag
Atomic_try_lock_shared_full_range(t, o) ==
    /\ token' = token
    /\ count' = WAdd(count, 1)
    /\ IF count < Atomic_EXCLUSIVE_FLAG
       THEN LockDone(t, o, "ok", count)
       ELSE /\ Guards(t, 0, 0)
            /\ Continue(t, o, "atomic_revert", count)

\* the first half of try_lock_shared: fetch_add(1) and the test of the old value
Atomic_try_lock_shared(t, o) ==
    /\ token' = token
    /\ count' = WAdd(count, 1)
    /\ IF count < Atomic_EXCLUSIVE_FLAG \div 2
       THEN LockDone(t, o, "ok", count)
       ELSE /\ Guards(t, 0, 0)
            /\ Continue(t, o, "atomic_revert", count)

\* a second half that returns false without the fetch_sub
Atomic_revert_keep(t, failure) ==
    /\ token' = token
    /\ count' = count
    /\ LockDone(t, op[t], failure, old[t])

\* the second half: fetch_sub(1) and return false
Atomic_revert(t, failure) ==
    /\ token' = token
    /\ count' = WSub(count, 1)
    /\ LockDone(t, op[t], failure, old[t])

\* lock_shared is try_lock_shared, and borrow_fail ("locked") when it fails
Atomic_lock_shared(t, o) == Atomic_try_lock_shared(t, o)

Atomic_revert_step(t) ==
    /\ backend = "Atomic"
    /\ cell = "alive"
    /\ pc[t] = "atomic_revert"
    /\ Atomic_revert(t, IF IsTry(op[t]) THEN "fail" ELSE "locked")
    /\ UNCHANGED <<backend, value, nrep, ub>>

Atomic_unlock_shared(t, o, dr) ==
    /\ token' = token
    /\ count' = WSub(count, 1)
    /\ Guards(t, dr, 0)
    /\ Return(t, o, "ok", count)

\* try_lock_exclusive that only looks for the exclusive flag: readers are ignored
Atomic_try_lock_exclusive_flag_only(t, o) ==
    /\ token' = token
    /\ IF count < Atomic_EXCLUSIVE_FLAG
       THEN /\ count' = Atomic_EXCLUSIVE_FLAG
            /\ LockDone(t, o, "ok", count)
       ELSE /\ count' = count
            /\ LockDone(t, o, "fail", count)

\* compare_exchange(0, EXCLUSIVE_FLAG).is_ok()
Atomic_try_lock_exclusive(t, o) ==
    /\ token' = token
    /\ IF count = 0
       THEN /\ count' = Atomic_EXCLUSIVE_FLAG
            /\ LockDone(t, o, "ok", count)
       ELSE /\ count' = count
            /\ LockDone(t, o, "fail", count)

\* lock_exclusive whose borrow_fail reports "deadlock", as LocalLock's does
Atomic_lock_exclusive_deadlock(t, o) ==
    /\ token' = token
    /\ IF count = 0
       THEN /\ count' = Atomic_EXCLUSIVE_FLAG
            /\ LockDone(t, o, "ok", count)
       ELSE /\ count' = count
            /\ LockDone(t, o, "deadlock", count)

\* lock_exclusive is try_lock_exclusive, and borrow_fail ("locked") when it fails
Atomic_lock_exclusive(t, o) ==
    /\ token' = token
    /\ IF count = 0
       THEN /\ count' = Atomic_EXCLUSIVE_FLAG
            /\ LockDone(t, o, "ok", count)
       ELSE /\ count' = count
            /\ LockDone(t, o, "locked", count)

Atomic_unlock_exclusive(t, o, dw) ==
    /\ token' = token
    /\ count' = WSub(count, Atomic_EXCLUSIVE_FLAG)
    /\ Guards(t, 0, dw)
    /\ Return(t, o, "ok", count)

\* -------------------------------------------------------------- SyncLock

\* the frame of a step inside a SyncLock function: thread t is at position l
\* and the lock is still there
SyncAt(t, l) ==
    /\ backend = "Sync"
    /\ cell = "alive"
    /\ pc[t] = l
    /\ UNCHANGED <<backend, value, nrep, ub>>

\* thread::park() of thread t returns because the token is there, and takes it
Park(t) ==
    /\ token[t]
    /\ token' = [token EXCEPT ![t] = FALSE]

\* thread::park() of thread t returns spuriously
ParkSpurious(t) == token' = token

\* self.owner.unpark()
Unpark == token' = [token EXCEPT ![Creator] = TRUE]

\* lock_shared: fetch_add(1, Acquire)
Sync_lock_shared(t, o) ==
    /\ token' = token
    /\ count' = WAdd(count, 1)
    /\ IF count < EXCLUSIVE_FLAG - 2
       THEN LockDone(t, o, "ok", count)
       ELSE /\ Guards(t, 0, 0)
            /\ Continue(t, o, "lock_shared_slow", count)

\* lock_shared_slow up to its compare_exchange
Sync_lock_shared_slow(t) ==
    /\ SyncAt(t, "lock_shared_slow")
    /\ token' = token
    /\ IF old[t] = EXCLUSIVE_FLAG - 2
       THEN /\ count' = WSub(count, 1)
            /\ LockDone(t, op[t], "lock counter overflow", old[t])
       ELSE IF count = EXCLUSIVE_FLAG + 1
            THEN /\ count' = PARKED_FLAG + EXCLUSIVE_FLAG
                 /\ Guards(t, 0, 0)
                 /\ Continue(t, op[t], "lss_park", old[t])
            ELSE /\ count' = count
                 /\ LockDone(t, op[t], "ok", old[t])

Sync_lss_park(t) ==
    /\ SyncAt(t, "lss_park")
    /\ Park(t)
    /\ count' = count
    /\ Guards(t, 0, 0)
    /\ Continue(t, op[t], "lss_load", old[t])

\* a spurious return of park that is taken for the wake-up: no check follows
Sync_lss_park_spurious_no_check(t) ==
    /\ SyncAt(t, "lss_park")
    /\ ParkSpurious(t)
    /\ count' = count
    /\ Guards(t, 0, 0)
    /\ Continue(t, op[t], "lss_store", old[t])

Sync_lss_park_spurious(t) ==
    /\ SyncAt(t, "lss_park")
    /\ ParkSpurious(t)
    /\ count' = count
    /\ Guards(t, 0, 0)
    /\ Continue(t, op[t], "lss_load", old[t])

\* lock_shared_slow without the loop around park: the counter is not read again
Sync_lss_load_unchecked(t) ==
    /\ SyncAt(t, "lss_load")
    /\ token' = token
    /\ count' = count
    /\ Guards(t, 0, 0)
    /\ Continue(t, op[t], "lss_store", old[t])

\* the check for spurious wake ups
Sync_lss_load(t) ==
    /\ SyncAt(t, "lss_load")
    /\ token' = token
    /\ count' = count
    /\ Guards(t, 0, 0)
    /\ Continue(t, op[t], IF count # 0 THEN "lss_park" ELSE "lss_store", old[t])

\* lock_shared_slow that leaves the counter at 0 after the wake-up: the read
\* lock it returns is not counted
Sync_lss_store_zero(t) ==
    /\ SyncAt(t, "lss_store")
    /\ token' = token
    /\ count' = 0
    /\ LockDone(t, op[t], "ok", old[t])

Sync_lss_store(t) ==
    /\ SyncAt(t, "lss_store")
    /\ token' = token
    /\ count' = 1
    /\ LockDone(t, op[t], "ok", old[t])

\* try_lock_shared that falls into lock_shared_slow as lock_shared does
Sync_try_lock_shared_slow(t, o) ==
    /\ token' = token
    /\ count' = WAdd(count, 1)
    /\ IF count < EXCLUSIVE_FLAG - 2
       THEN LockDone(t, o, "ok", count)
       ELSE /\ Guards(t, 0, 0)
            /\ Continue(t, o, "lock_shared_slow", count)

\* try_lock_shared: fetch_add(1, Acquire)
Sync_try_lock_shared(t, o) ==
    /\ token' = token
    /\ count' = WAdd(count, 1)
    /\ IF count < EXCLUSIVE_FLAG - 2
       THEN LockDone(t, o, "ok", count)
       ELSE /\ Guards(t, 0, 0)
            /\ Continue(t, o, "tls_revert", count)

\* try_lock_shared that returns false without taking its increment back
Sync_tls_no_revert(t) ==
    /\ SyncAt(t, "tls_revert")
    /\ token' = token
    /\ count' = count
    /\ LockDone(t, op[t], "fail", old[t])

\* Failure; revert the change
Sync_tls_revert(t) ==
    /\ SyncAt(t, "tls_revert")
    /\ token' = token
    /\ count' = WSub(count, 1)
    /\ LockDone(t, op[t], "fail", old[t])

\* unlock_shared that wakes the creator whenever the parked bit is set, not only
\* when it drops the last read lock
Sync_unlock_shared_any_parked(t, o, dr) ==
    /\ token' = token
    /\ count' = WSub(count, 1)
    /\ Guards(t, dr, 0)
    /\ IF count >= PARKED_FLAG
       THEN Continue(t, o, "us_store", count)
       ELSE Return(t, o, "ok", count)

\* unlock_shared that tests the new value of the counter, not the one fetch_sub
\* returned: the last reader does not see that the creator is parked
Sync_unlock_shared_new_value(t, o, dr) ==
    /\ token' = token
    /\ count' = WSub(count, 1)
    /\ Guards(t, dr, 0)
    /\ IF WSub(count, 1) = PARKED_FLAG_P1
       THEN Continue(t, o, "us_store", count)
       ELSE Return(t, o, "ok", count)

\* unlock_shared: fetch_sub(1, Release)
Sync_unlock_shared(t, o, dr) ==
    /\ token' = token
    /\ count' = WSub(count, 1)
    /\ Guards(t, dr, 0)
    /\ IF count = PARKED_FLAG_P1
       THEN Continue(t, o, "us_store", count)
       ELSE Return(t, o, "ok", count)

Sync_us_store(t) ==
    /\ SyncAt(t, "us_store")
    /\ token' = token
    /\ count' = 0
    /\ Guards(t, 0, 0)
    /\ Continue(t, op[t], "us_unpark", old[t])

Sync_us_unpark(t) ==
    /\ SyncAt(t, "us_unpark")
    /\ Unpark
    /\ count' = count
    /\ Guards(t, 0, 0)
    /\ Return(t, op[t], "ok", old[t])

\* lock_exclusive that stores EXCLUSIVE_FLAG whatever it loaded: no slow path
Sync_lock_exclusive_no_wait(t, o) ==
    /\ token' = token
    /\ count' = count
    /\ Guards(t, 0, 0)
    /\ Continue(t, o, "le_store", count)

\* lock_exclusive: load(Acquire)
Sync_lock_exclusive(t, o) ==
    /\ token' = token
    /\ count' = count
    /\ Guards(t, 0, 0)
    /\ Continue(t, o, IF count = 0 THEN "le_store" ELSE "lock_exclusive_slow", count)

Sync_le_store(t) ==
    /\ SyncAt(t, "le_store")
    /\ token' = token
    /\ count' = EXCLUSIVE_FLAG
    /\ LockDone(t, op[t], "ok", old[t])

\* lock_exclusive_slow that parks whatever its fetch_add returned
Sync_lock_exclusive_slow_always_park(t) ==
    /\ SyncAt(t, "lock_exclusive_slow")
    /\ token' = token
    /\ count' = WAdd(count, PARKED_FLAG)
    /\ Guards(t, 0, 0)
    /\ Continue(t, op[t], "les_park", old[t])

\* lock_exclusive_slow: fetch_add(PARKED_FLAG, Relaxed)
Sync_lock_exclusive_slow(t) ==
    /\ SyncAt(t, "lock_exclusive_slow")
    /\ token' = token
    /\ count' = WAdd(count, PARKED_FLAG)
    /\ Guards(t, 0, 0)
    /\ Continue(t, op[t], IF count = 0 THEN "les_store" ELSE "les_park", old[t])

Sync_les_park(t) ==
    /\ SyncAt(t, "les_park")
    /\ Park(t)
    /\ count' = count
    /\ Guards(t, 0, 0)
    /\ Continue(t, op[t], "les_load", old[t])

Sync_les_park_spurious(t) ==
    /\ SyncAt(t, "les_park")
    /\ ParkSpurious(t)
    /\ count' = count
    /\ Guards(t, 0, 0)
    /\ Continue(t, op[t], "les_load", old[t])

\* the check after park that waits only for a writer: the reader bits are ignored
Sync_les_load_writer_only(t) ==
    /\ SyncAt(t, "les_load")
    /\ token' = token
    /\ count' = count
    /\ Guards(t, 0, 0)
    /\ Continue(t, op[t],
                IF (count % PARKED_FLAG) >= EXCLUSIVE_FLAG THEN "les_park" ELSE "les_store",
                old[t])

\* lock_exclusive_slow without the loop around park: the counter is not read again
Sync_les_load_unchecked(t) ==
    /\ SyncAt(t, "les_load")
    /\ token' = token
    /\ count' = count
    /\ Guards(t, 0, 0)
    /\ Continue(t, op[t], "les_store", old[t])

\* the check for spurious wake ups
Sync_les_load(t) ==
    /\ SyncAt(t, "les_load")
    /\ token' = token
    /\ count' = count
    /\ Guards(t, 0, 0)
    /\ Continue(t, op[t], IF count # 0 THEN "les_park" ELSE "les_store", old[t])

Sync_les_store(t) ==
    /\ SyncAt(t, "les_store")
    /\ token' = token
    /\ count' = EXCLUSIVE_FLAG
    /\ LockDone(t, op[t], "ok", old[t])

\* try_lock_exclusive that tests the loaded value against EXCLUSIVE_FLAG, not 0
Sync_try_lock_exclusive_below_flag(t, o) ==
    /\ token' = token
    /\ count' = count
    /\ IF count < EXCLUSIVE_FLAG
       THEN /\ Guards(t, 0, 0)
            /\ Continue(t, o, "tle_store", count)
       ELSE LockDone(t, o, "fail", count)

\* try_lock_exclusive: load(Acquire)
Sync_try_lock_exclusive(t, o) ==
    /\ token' = token
    /\ count' = count
    /\ IF count = 0
       THEN /\ Guards(t, 0, 0)
            /\ Continue(t, o, "tle_store", count)
       ELSE LockDone(t, o, "fail", count)

Sync_tle_store(t) ==
    /\ SyncAt(t, "tle_store")
    /\ token' = token
    /\ count' = EXCLUSIVE_FLAG
    /\ LockDone(t, op[t], "ok", old[t])

\* unlock_exclusive that never looks for a parked creator
Sync_unlock_exclusive_no_wake(t, o, dw) ==
    /\ token' = token
    /\ count' = WSub(count, EXCLUSIVE_FLAG)
    /\ Guards(t, 0, dw)
    /\ Return(t, o, "ok", count)

\* unlock_exclusive: fetch_sub(EXCLUSIVE_FLAG, Release)
Sync_unlock_exclusive(t, o, dw) ==
    /\ token' = token
    /\ count' = WSub(count, EXCLUSIVE_FLAG)
    /\ Guards(t, 0, dw)
    /\ IF count = PARKED_FLAG + EXCLUSIVE_FLAG
       THEN Continue(t, o, "ue_store", count)
       ELSE Return(t, o, "ok", count)

Sync_ue_store(t) ==
    /\ SyncAt(t, "ue_store")
    /\ token' = token
    /\ count' = 0
    /\ Guards(t, 0, 0)
    /\ Continue(t, op[t], "ue_unpark", old[t])

Sync_ue_unpark(t) ==
    /\ SyncAt(t, "ue_unpark")
    /\ Unpark
    /\ count' = count
    /\ Guards(t, 0, 0)
    /\ Return(t, op[t], "ok", old[t])

\* ------------------------------------------------- the Lock trait (dispatch)

lock_shared(t, o) ==
    CASE backend = "Local" -> Local_lock_shared(t, o)
      [] backend = "Atomic" -> Atomic_lock_shared(t, o)
      [] backend = "Sync" -> Sync_lock_shared(t, o)

try_lock_shared(t, o) ==
    CASE backend = "Local" -> Local_try_lock_shared(t, o)
      [] backend = "Atomic" -> Atomic_try_lock_shared(t, o)
      [] backend = "Sync" -> Sync_try_lock_shared(t, o)

unlock_shared(t, o, dr) ==
    CASE backend = "Local" -> Local_unlock_shared(t, o, dr)
      [] backend = "Atomic" -> Atomic_unlock_shared(t, o, dr)
      [] backend = "Sync" -> Sync_unlock_shared(t, o, dr)

lock_exclusive(t, o) ==
    CASE backend = "Local" -> Local_lock_exclusive(t, o)
      [] backend = "Atomic" -> Atomic_lock_exclusive(t, o)
      [] backend = "Sync" -> Sync_lock_exclusive(t, o)

try_lock_exclusive(t, o) ==
    CASE backend = "Local" -> Local_try_lock_exclusive(t, o)
      [] backend = "Atomic" -> Atomic_try_lock_exclusive(t, o)
      [] backend = "Sync" -> Sync_try_lock_exclusive(t, o)

unlock_exclusive(t, o, dw) ==
    CASE backend = "Local" -> Local_unlock_exclusive(t, o, dw)
      [] backend = "Atomic" -> Atomic_unlock_exclusive(t, o, dw)
      [] backend = "Sync" -> Sync_unlock_exclusive(t, o, dw)

\* ------------------------------------------------------ Cryo and CryoMut

\* a LockMarker that is Send for every backend: any thread can reach the cell
LockMarkerAlwaysSend == TRUE

\* LockMarker: a thread other than the creator can reach the cell (Cryo: Send +
\* Sync) only when the lock's LockMarker is Send, which is AtomicLock alone
LockMarkerSend == backend = "Atomic"

\* UnlockMarker: the guards of AtomicLock and SyncLock are Send
UnlockMarkerSend == backend \in {"Atomic", "Sync"}

\* thread t can call a &self method of the cell: it is idle, the cell is alive
\* and nobody holds the cell by &mut (drop, try_get_mut)
CanBorrow(t) ==
    /\ cell = "alive"
    /\ Idle(t)
    /\ t = Creator \/ LockMarkerSend
    /\ op[Creator] \notin {"drop_cell", "try_get_mut"}

\* the creator can take the cell by &mut: no other thread is inside a method
ExclusiveAccess ==
    /\ cell = "alive"
    /\ Idle(Creator)
    /\ \A u \in Others : op[u] \notin CellOps

\* operations that end with a new guard
Acquiring == {"read", "try_read", "write", "try_write", "clone"}

\* the guards that are live or being acquired stay below MaxGuards
UnderBudget ==
    TotalRead + TotalWrite + Cardinality({u \in Threads : op[u] \in Acquiring}) < MaxGuards

Frame == UNCHANGED <<backend, value, nrep, ub>>

\* Cryo::borrow and CryoMut::read
Read(t) == CanBorrow(t) /\ UnderBudget /\ lock_shared(t, "read") /\ Frame

TryRead(t) == CanBorrow(t) /\ UnderBudget /\ try_lock_shared(t, "try_read") /\ Frame

Write(t) == CanBorrow(t) /\ UnderBudget /\ lock_exclusive(t, "write") /\ Frame

TryWrite(t) == CanBorrow(t) /\ UnderBudget /\ try_lock_exclusive(t, "try_write") /\ Frame

\* try_get_mut: try_write() ...
TryGetMut == ExclusiveAccess /\ try_lock_exclusive(Creator, "try_get_mut") /\ Frame

\* try_get_mut that forgets its temporary guard: the lock is never released
TryGetMutForget ==
    /\ cell = "alive"
    /\ pc[Creator] = "tgm_unlock"
    /\ UNCHANGED <<count, token>>
    /\ Guards(Creator, 0, -1)
    /\ Return(Creator, "try_get_mut", "ok", count)
    /\ Frame

\* ... .is_some(): the temporary guard is dropped, then Some(&mut T) is returned
TryGetMutRelease ==
    /\ cell = "alive"
    /\ pc[Creator] = "tgm_unlock"
    /\ unlock_exclusive(Creator, "try_get_mut", -1)
    /\ Frame

\* Cryo::get: the value is read through the stored address, the lock is not used
Get(t) ==
    /\ CanBorrow(t)
    /\ last' = Event(t, "get", "ok", value)
    /\ UNCHANGED <<backend, count, token, cell, value, nrep, rg, wg, op, pc, old, ub>>

\* Debug for CryoMut: try_read(); when it fails "<locked>" is printed (result
\* "fail") and fmt returns
Fmt(t) == CanBorrow(t) /\ UnderBudget /\ try_lock_shared(t, "fmt") /\ Frame

\* a fmt that keeps its read guard: the lock is not released
FmtForget(t) ==
    /\ cell = "alive"
    /\ pc[t] = "fmt_unlock"
    /\ UNCHANGED <<count, token>>
    /\ Guards(t, -1, 0)
    /\ Return(t, "fmt", "ok", count)
    /\ Frame

\* ... the data is printed through the guard, and the guard is dropped
FmtRelease(t) ==
    /\ cell = "alive"
    /\ pc[t] = "fmt_unlock"
    /\ unlock_shared(t, "fmt", -1)
    /\ Frame

\* Drop for Cryo and CryoMut
DropCell == ExclusiveAccess /\ lock_exclusive(Creator, "drop_cell") /\ Frame

\* ------------------------------------------------------------ the guards

Holds(t) == rg[t] + wg[t] > 0

\* Clone for CryoMutReadGuard
Clone(t) ==
    /\ cell = "alive"
    /\ Idle(t)
    /\ rg[t] > 0
    /\ UnderBudget
    /\ lock_shared(t, "clone")
    /\ Frame

\* Drop for CryoMutReadGuard
DropRead(t) ==
    /\ cell = "alive"
    /\ Idle(t)
    /\ rg[t] > 0
    /\ unlock_shared(t, "drop_read", -1)
    /\ Frame

\* Drop for CryoMutWriteGuard
DropWrite(t) ==
    /\ cell = "alive"
    /\ Idle(t)
    /\ wg[t] > 0
    /\ unlock_exclusive(t, "drop_write", -1)
    /\ Frame

\* a guard is moved to another thread
SendRead(t, u) ==
    /\ UnlockMarkerSend
    /\ Idle(t)
    /\ t # u
    /\ rg[t] > 0
    /\ rg' = [rg EXCEPT ![t] = @ - 1, ![u] = @ + 1]
    /\ last' = NoEvent
    /\ UNCHANGED <<backend, count, token, cell, value, nrep, wg, op, pc, old, ub>>

SendWrite(t, u) ==
    /\ UnlockMarkerSend
    /\ Idle(t)
    /\ t # u
    /\ wg[t] > 0
    /\ wg' = [wg EXCEPT ![t] = @ - 1, ![u] = @ + 1]
    /\ last' = NoEvent
    /\ UNCHANGED <<backend, count, token, cell, value, nrep, rg, op, pc, old, ub>>

\* Deref for CryoMutReadGuard and CryoMutWriteGuard: the value is read
Deref(t) ==
    /\ cell = "alive"
    /\ Idle(t)
    /\ Holds(t)
    /\ last' = Event(t, "deref", "ok", value)
    /\ UNCHANGED <<backend, count, token, cell, value, nrep, rg, wg, op, pc, old, ub>>

\* mem::replace(&mut *guard, v) through DerefMut: the old value is read ...
ReplaceRead(t) ==
    /\ cell = "alive"
    /\ Idle(t)
    /\ wg[t] > 0
    /\ nrep + Cardinality({u \in Threads : pc[u] = "replace_write"}) < MaxWrites
    /\ Guards(t, 0, 0)
    /\ Continue(t, "replace", "replace_write", value)
    /\ UNCHANGED <<backend, count, token, value, nrep, ub>>

\* ... and the new one written; the writers number their values
ReplaceWrite(t) ==
    /\ cell = "alive"
    /\ pc[t] = "replace_write"
    /\ value' = old[t] + 1
    /\ nrep' = nrep + 1
    /\ Guards(t, 0, 0)
    /\ Return(t, "replace", "ok", old[t])
    /\ UNCHANGED <<backend, count, token, ub>>

\* ------------------------------------------- accesses to a destroyed cell

\* a thread that reads or writes the cell's memory after the cell's drop has
\* ended has undefined behaviour: the access is recorded and the thread is
\* followed no further
Dangling(t, o) ==
    /\ cell = "destroyed"
    /\ ub' = ub \cup {o}
    /\ pc' = [pc EXCEPT ![t] = "ub"]
    /\ last' = NoEvent
    /\ UNCHANGED <<backend, count, token, cell, value, nrep, rg, wg, op, old>>

\* a guard is used (deref, clone) or dropped after the cell is gone
DanglingGuard(t) ==
    /\ Idle(t)
    /\ \/ Holds(t) /\ Dangling(t, "deref")
       \/ rg[t] > 0 /\ Dangling(t, "clone")
       \/ rg[t] > 0 /\ Dangling(t, "drop_read")
       \/ wg[t] > 0 /\ Dangling(t, "drop_write")

\* an operation on a guard that was under way when the cell went
DanglingStep(t) ==
    /\ pc[t] \notin {"idle", "ub"}
    /\ Dangling(t, op[t])

\* ------------------------------------------------------------------ Next

\* the public operations of the cell and of the guards
ApiNext ==
    \/ \E t \in Threads : Read(t)
    \/ \E t \in Threads : TryRead(t)
    \/ \E t \in Threads : Write(t)
    \/ \E t \in Threads : TryWrite(t)
    \/ TryGetMut
    \/ TryGetMutRelease
    \/ DropCell
    \/ \E t \in Threads : Clone(t)
    \/ \E t \in Threads : DropRead(t)
    \/ \E t \in Threads : DropWrite(t)
    \/ \E t, u \in Threads : SendRead(t, u)
    \/ \E t, u \in Threads : SendWrite(t, u)
    \/ \E t \in Threads : Deref(t)
    \/ \E t \in Threads : ReplaceRead(t)
    \/ \E t \in Threads : ReplaceWrite(t)
    \/ \E t \in Threads : DanglingStep(t)

\* the steps that follow the first one inside the functions of SyncLock, park's
\* spurious returns left out
SyncSteps(t) ==
    \/ Sync_lock_shared_slow(t)
    \/ Sync_lss_park(t)
    \/ Sync_lss_load(t)
    \/ Sync_lss_store(t)
    \/ Sync_tls_revert(t)
    \/ Sync_us_store(t)
    \/ Sync_us_unpark(t)
    \/ Sync_le_store(t)
    \/ Sync_lock_exclusive_slow(t)
    \/ Sync_les_park(t)
    \/ Sync_les_load(t)
    \/ Sync_les_store(t)
    \/ Sync_tle_store(t)
    \/ Sync_ue_store(t)
    \/ Sync_ue_unpark(t)

SyncSpurious(t) ==
    \/ Sync_lss_park_spurious(t)
    \/ Sync_les_park_spurious(t)

SyncNext == \E t \in Threads : SyncSteps(t) \/ SyncSpurious(t)

AtomicNext == \E t \in Threads : Atomic_revert_step(t)

\* with the fail-fast locks the drop of the cell can end while guards are live
FailFastNext == \E t \in Threads : DanglingGuard(t)

Next == ApiNext \/ FailFastNext \/ AtomicNext \/ SyncNext

Spec == Init /\ [][Next]_vars

\* the cell is built with SyncLock
InitSync == Init /\ backend = "Sync"

NextSync == ApiNext \/ SyncNext

SpecSync == InitSync /\ [][NextSync]_vars

\* the scheduler runs every thread that is inside a SyncLock function and can
\* take a step; a parked thread runs again when its token is there, a spurious
\* return of park is possible but never promised
SpecSyncFair == SpecSync /\ \A t \in Threads : WF_vars(SyncSteps(t))

\* the cell is built with LocalLock and used by the creator thread alone (its
\* guards are not Send); the number of guards is limited by the lock only, so
\* the counter goes all the way up to the values next to the sentinel
InitLocal == Init /\ backend = "Local"

LocalRead == CanBorrow(Creator) /\ lock_shared(Creator, "read") /\ Frame

LocalTryRead == CanBorrow(Creator) /\ try_lock_shared(Creator, "try_read") /\ Frame

LocalClone ==
    /\ cell = "alive"
    /\ Idle(Creator)
    /\ rg[Creator] > 0
    /\ lock_shared(Creator, "clone")
    /\ Frame

LocalWrite == CanBorrow(Creator) /\ lock_exclusive(Creator, "write") /\ Frame

LocalTryWrite == CanBorrow(Creator) /\ try_lock_exclusive(Creator, "try_write") /\ Frame

NextLocal ==
    \/ LocalRead
    \/ LocalTryRead
    \/ LocalClone
    \/ LocalWrite
    \/ LocalTryWrite
    \/ TryGetMut
    \/ TryGetMutRelease
    \/ DropRead(Creator)
    \/ DropWrite(Creator)
    \/ Deref(Creator)
    \/ ReplaceRead(Creator)
    \/ ReplaceWrite(Creator)

SpecLocal == InitLocal /\ [][NextLocal]_vars

\* the cell is built with AtomicLock and stays alive; every thread can reach it,
\* and the number of guards is limited by the lock only, so that all threads can
\* be inside a shared acquisition while the reader count is at its maximum
InitAtomic == Init /\ backend = "Atomic"

AtomicRead(t) == CanBorrow(t) /\ lock_shared(t, "read") /\ Frame

AtomicTryRead(t) == CanBorrow(t) /\ try_lock_shared(t, "try_read") /\ Frame

AtomicClone(t) ==
    /\ cell = "alive"
    /\ Idle(t)
    /\ rg[t] > 0
    /\ lock_shared(t, "clone")
    /\ Frame

AtomicWrite(t) == CanBorrow(t) /\ lock_exclusive(t, "write") /\ Frame

AtomicTryWrite(t) == CanBorrow(t) /\ try_lock_exclusive(t, "try_write") /\ Frame

NextAtomic ==
    \/ \E t \in Threads : AtomicRead(t)
    \/ \E t \in Threads : AtomicTryRead(t)
    \/ \E t \in Threads : AtomicClone(t)
    \/ \E t \in Threads : AtomicWrite(t)
    \/ \E t \in Threads : AtomicTryWrite(t)
    \/ \E t \in Threads : Atomic_revert_step(t)
    \/ TryGetMut
    \/ TryGetMutRelease
    \/ \E t \in Threads : DropRead(t)
    \/ \E t \in Threads : DropWrite(t)
    \/ \E t, u \in Threads : SendRead(t, u)
    \/ \E t, u \in Threads : SendWrite(t, u)

SpecAtomic == InitAtomic /\ [][NextAtomic]_vars

\* the creator thread alone uses the cell, with the calls that never wait: the
\* try_ functions, the use and the drops of its guards, get, try_get_mut and
\* Debug::fmt
NextFrame ==
    \/ TryRead(Creator)
    \/ TryWrite(Creator)
    \/ DropRead(Creator)
    \/ DropWrite(Creator)
    \/ Get(Creator)
    \/ Fmt(Creator)
    \/ FmtRelease(Creator)
    \/ TryGetMut
    \/ TryGetMutRelease
    \/ Atomic_revert_step(Creator)
    \/ Sync_tls_revert(Creator)
    \/ Sync_tle_store(Creator)
    \/ Deref(Creator)
    \/ ReplaceRead(Creator)
    \/ ReplaceWrite(Creator)

SpecFrame == Init /\ [][NextFrame]_vars

\* ------------------------------------------- StdRawRwLock (raw_rwlock.rs)

\* raw_rwlock.rs: !(usize::max_value() >> 1) and PARKED_FLAG >> 1
Raw_PARKED_FLAG == Pow2(WordBits - 1)
Raw_EXCLUSIVE_FLAG == Raw_PARKED_FLAG \div 2

\* StdRawRwLock::new: count: AtomicUsize::new(0)
Raw_new == 0

\* the state of a call into StdRawRwLock: the position l inside the function,
\* the counter c, the value o the call has read from it, the park tokens k of
\* the threads, and the result r once the call is over
RawState(l, c, o, k, r) == [l |-> l, c |-> c, o |-> o, k |-> k, r |-> r]

\* the call returns (r is "ok" for () and true, "fail" for false) or panics
RawDone(c, k, r) == RawState("done", c, 0, k, r)

\* lock_shared: fetch_add(1, Acquire)
Raw_lock_shared(c, k) ==
    IF c < Raw_EXCLUSIVE_FLAG - 2
    THEN {RawDone(WAdd(c, 1), k, "ok")}
    ELSE {RawState("lock_shared_slow", WAdd(c, 1), c, k, "step")}

\* try_lock_shared: fetch_add(1, Acquire), and fetch_sub(1, Relaxed) on failure
Raw_try_lock_shared(l, c, k) ==
    IF l = "tls_revert"
    THEN {RawDone(WSub(c, 1), k, "fail")}
    ELSE IF c < Raw_EXCLUSIVE_FLAG - 2
         THEN {RawDone(WAdd(c, 1), k, "ok")}
         ELSE {RawState("tls_revert", WAdd(c, 1), c, k, "step")}

\* unlock_shared: fetch_sub(1, Release); store(0) and owner.unpark() when the
\* value read is PARKED_FLAG | 1
Raw_unlock_shared(l, c, o, k) ==
    CASE l = "us_store" -> {RawState("us_unpark", 0, o, k, "step")}
      [] l = "us_unpark" -> {RawDone(c, [k EXCEPT ![Creator] = TRUE], "ok")}
      [] OTHER -> IF c = Raw_PARKED_FLAG + 1
                  THEN {RawState("us_store", WSub(c, 1), c, k, "step")}
                  ELSE {RawDone(WSub(c, 1), k, "ok")}

\* lock_exclusive: load(Acquire), then store(EXCLUSIVE_FLAG) or the slow path
Raw_lock_exclusive(l, c, o, k) ==
    IF l = "le_store"
    THEN {RawDone(Raw_EXCLUSIVE_FLAG, k, "ok")}
    ELSE {RawState(IF c = 0 THEN "le_store" ELSE "lock_exclusive_slow", c, c, k, "step")}

\* try_lock_exclusive: load(Acquire), then store(EXCLUSIVE_FLAG) or false
Raw_try_lock_exclusive(l, c, o, k) ==
    IF l = "tle_store"
    THEN {RawDone(Raw_EXCLUSIVE_FLAG, k, "ok")}
    ELSE IF c = 0
         THEN {RawState("tle_store", c, c, k, "step")}
         ELSE {RawDone(c, k, "fail")}

\* unlock_exclusive: fetch_sub(EXCLUSIVE_FLAG, Release); store(0) and
\* owner.unpark() when the value read is PARKED_FLAG | EXCLUSIVE_FLAG
Raw_unlock_exclusive(l, c, o, k) ==
    CASE l = "ue_store" -> {RawState("ue_unpark", 0, o, k, "step")}
      [] l = "ue_unpark" -> {RawDone(c, [k EXCEPT ![Creator] = TRUE], "ok")}
      [] OTHER -> IF c = Raw_PARKED_FLAG + Raw_EXCLUSIVE_FLAG
                  THEN {RawState("ue_store", WSub(c, Raw_EXCLUSIVE_FLAG), c, k, "step")}
                  ELSE {RawDone(WSub(c, Raw_EXCLUSIVE_FLAG), k, "ok")}

\* thread::park() of thread t inside StdRawRwLock: it returns with the token
\* taken, or spuriously; the counter is loaded next
Raw_park(t, l, c, o, k) ==
    {RawState(l, c, o, k, "step")}
        \cup (IF k[t] THEN {RawState(l, c, o, [k EXCEPT ![t] = FALSE], "step")} ELSE {})

\* lock_shared_slow: the overflow panic, the compare_exchange, the park loop
\* and the store of 1
Raw_lock_shared_slow(t, l, c, o, k) ==
    CASE l = "lock_shared_slow" ->
            IF o = Raw_EXCLUSIVE_FLAG - 2
            THEN {RawDone(WSub(c, 1), k, "lock counter overflow")}
            ELSE IF c = Raw_EXCLUSIVE_FLAG + 1
                 THEN {RawState("lss_park", Raw_PARKED_FLAG + Raw_EXCLUSIVE_FLAG, o, k, "step")}
                 ELSE {RawDone(c, k, "ok")}
      [] l = "lss_park" -> Raw_park(t, "lss_load", c, o, k)
      [] l = "lss_load" ->
            {RawState(IF c # 0 THEN "lss_park" ELSE "lss_store", c, o, k, "step")}
      [] l = "lss_store" -> {RawDone(1, k, "ok")}

\* lock_exclusive_slow: fetch_add(PARKED_FLAG, Relaxed), the park loop and the
\* store of EXCLUSIVE_FLAG
Raw_lock_exclusive_slow(t, l, c, o, k) ==
    CASE l = "lock_exclusive_slow" ->
            {RawState(IF c = 0 THEN "les_store" ELSE "les_park",
                      WAdd(c, Raw_PARKED_FLAG), o, k, "step")}
      [] l = "les_park" -> Raw_park(t, "les_load", c, o, k)
      [] l = "les_load" ->
            {RawState(IF c # 0 THEN "les_park" ELSE "les_store", c, o, k, "step")}
      [] l = "les_store" -> {RawDone(Raw_EXCLUSIVE_FLAG, k, "ok")}

\* the positions inside the functions of the lock
RawLabels ==
    {"lock_shared_slow", "lss_park", "lss_load", "lss_store", "tls_revert",
     "us_store", "us_unpark", "le_store", "lock_exclusive_slow", "les_park",
     "les_load", "les_store", "tle_store", "ue_store", "ue_unpark"}

\* the states StdRawRwLock can be in after one step of thread t from position
\* l (the name of a trait function at its call, a position inside it later)
RawNext(t, l, c, o, k) ==
    CASE l = "lock_shared" -> Raw_lock_shared(c, k)
      [] l \in {"try_lock_shared", "tls_revert"} -> Raw_try_lock_shared(l, c, k)
      [] l \in {"unlock_shared", "us_store", "us_unpark"} -> Raw_unlock_shared(l, c, o, k)
      [] l \in {"lock_exclusive", "le_store"} -> Raw_lock_exclusive(l, c, o, k)
      [] l \in {"try_lock_exclusive", "tle_store"} -> Raw_try_lock_exclusive(l, c, o, k)
      [] l \in {"unlock_exclusive", "ue_store", "ue_unpark"} -> Raw_unlock_exclusive(l, c, o, k)
      [] l \in {"lock_shared_slow", "lss_park", "lss_load", "lss_store"} ->
            Raw_lock_shared_slow(t, l, c, o, k)
      [] l \in {"lock_exclusive_slow", "les_park", "les_load", "les_store"} ->
            Raw_lock_exclusive_slow(t, l, c, o, k)

\* ------------------------------------------------------------------ claims

LiveGuards == TotalRead + TotalWrite

\* C1: no guard dereferences the protected reference (Deref, or DerefMut in
\* mem::replace) after the cell has been destroyed, whichever way its drop ended
C1_NoDerefAfterDestroy == ub \cap {"deref", "replace"} = {}

C3_GuardDropBeforeCellFreed ==
    backend = "Sync" => ub \cap {"drop_read", "drop_write"} = {}

SharedBlocked == pc[Creator] \in {"lock_shared_slow", "lss_park", "lss_load", "lss_store"}

ExclusiveBlocked ==
    pc[Creator] \in {"lock_exclusive_slow", "les_park", "les_load", "les_store"}

\* C5: with SyncLock and a fair scheduler no wake-up is lost: a blocked
\* lock_shared returns once no write guard is left, and a blocked lock_exclusive
\* (write, or the drop of the cell) returns once no guard at all is left
C5_NoLostWakeup ==
    /\ (SharedBlocked /\ TotalWrite = 0) ~> ~SharedBlocked
    /\ (ExclusiveBlocked /\ LiveGuards = 0) ~> ~ExclusiveBlocked

\* the creator is parked in lock_exclusive_slow, the last guard is gone and its
\* drop has delivered the token
C5_Witness ==
    /\ pc[Creator] = "les_park"
    /\ LiveGuards = 0
    /\ count = 0
    /\ token[Creator]

ReaderCount ==
    CASE backend = "Local" -> IF count = EXCLUSIVE THEN 0 ELSE count
      [] backend = "Atomic" -> count % Atomic_EXCLUSIVE_FLAG
      [] backend = "Sync" -> count % EXCLUSIVE_FLAG

\* C7: on every backend, between the operations of a sequence of shared
\* acquisitions and releases (no thread inside a lock function, no write guard)
\* the number of live read guards is the reader count the counter encodes, and
\* the counter is 0 again once the last of them is released
C7_CounterMatchesReaders ==
    (cell = "alive" /\ TotalWrite = 0 /\ \A t \in Threads : Idle(t)) =>
        /\ ReaderCount = TotalRead
        /\ TotalRead = 0 => count = 0

\* the value of the counter that means "exclusively locked"
Sentinel ==
    CASE backend = "Local" -> EXCLUSIVE
      [] backend = "Atomic" -> Atomic_EXCLUSIVE_FLAG
      [] backend = "Sync" -> EXCLUSIVE_FLAG

\* C8: on every backend try_lock_exclusive (called by try_write and try_get_mut)
\* succeeds exactly when the counter it reads at the call is 0, and right after
\* a success the counter is the exclusive sentinel and nothing else
C8_TryLockExclusive ==
    /\ (last.op \in {"try_write", "try_get_mut"} /\ last.res = "fail") => last.obs # 0
    /\ (last.op = "try_write" /\ last.res = "ok") => (last.obs = 0 /\ count = Sentinel)
    /\ pc[Creator] = "tgm_unlock" => count = Sentinel

\* try_write has just succeeded
C8_Witness ==
    /\ last.op = "try_write" /\ last.res = "ok"
    /\ wg[last.t] = 1
    /\ count = Sentinel

\* thread t is between the fetch_add and the fetch_sub of a try_lock_shared
\* that found the lock exclusively held
FailedTryInFlight(t) ==
    /\ op[t] = "try_read"
    /\ pc[t] \in {"atomic_revert", "tls_revert"}
    /\ old[t] = Sentinel

\* increments of shared acquisitions that are still to be taken back
InFlight ==
    Cardinality({u \in Threads : pc[u] \in {"atomic_revert", "tls_revert", "lock_shared_slow"}})

\* the counter value v has the exclusive sentinel in it
ExclusivelyHeld(v) ==
    CASE backend = "Local" -> v = EXCLUSIVE
      [] backend = "Atomic" -> v >= Atomic_EXCLUSIVE_FLAG
      [] backend = "Sync" -> v % PARKED_FLAG >= EXCLUSIVE_FLAG

TryGetMutCalled ==
    /\ Idle(Creator)
    /\ \/ op'[Creator] = "try_get_mut"
       \/ last'.op = "try_get_mut" /\ last'.res = "fail"

C10_WitnessNone ==
    /\ last.op = "try_get_mut" /\ last.res = "fail"
    /\ TotalRead > 0

\* positions at which a thread is parked or about to park
ParkLabels == {"lss_park", "lss_load", "les_park", "les_load"}

\* C11: with LocalLock a lock_shared (borrow, read, clone of a guard) made while
\* the lock is exclusively held panics ("deadlock") in the same step, without
\* waiting, and the counter is still the exclusive sentinel afterwards
C11_LocalSharedAborts ==
    backend = "Local" =>
        /\ (last.op \in {"read", "clone"} /\ last.obs = EXCLUSIVE) =>
               (last.res = "deadlock" /\ count = EXCLUSIVE)
        /\ \A t \in Threads : pc[t] \notin ParkLabels \cup {"lock_shared_slow"}

\* read() was called while a write guard is live, and panicked
C11_Witness ==
    /\ backend = "Local"
    /\ TotalWrite = 1
    /\ last = Event(Creator, "read", "deadlock", EXCLUSIVE)
    /\ count = EXCLUSIVE

\* C12: with LocalLock a lock_exclusive (write, or the drop of the cell) that
\* finds the counter nonzero, which is the case exactly when a guard is live,
\* panics ("deadlock") in the same step and leaves the counter as it was; when
\* it finds 0 it sets the counter to EXCLUSIVE
C12_LocalExclusive ==
    (backend = "Local" /\ last.op \in {"write", "drop_cell"}) =>
        /\ last.obs # 0 =>
               /\ last.res = "deadlock"
               /\ count = last.obs
               /\ LiveGuards > 0
        /\ last.obs = 0 =>
               /\ last.res = "ok"
               /\ count = EXCLUSIVE
               /\ LiveGuards = (IF last.op = "write" THEN 1 ELSE 0)

\* the Cryo is dropped while a CryoRef is live: the drop panics
C12_Witness ==
    /\ backend = "Local"
    /\ last = Event(Creator, "drop_cell", "deadlock", 1)
    /\ TotalRead = 1
    /\ count = 1

\* the creator is inside write() or the drop of the cell, with SyncLock, and
\* holds a guard itself
SelfDeadlocked ==
    /\ backend = "Sync"
    /\ op[Creator] \in {"write", "drop_cell"}
    /\ Holds(Creator)

LockingOps == Acquiring \cup {"try_get_mut", "drop_cell"}

\* C14: with SyncLock every call of lock_shared, try_lock_shared, lock_exclusive
\* and try_lock_exclusive is made by the thread that created the lock: no other
\* thread is ever inside one, and none has ever completed one
C14_ThreadAffinity ==
    backend = "Sync" =>
        /\ \A t \in Others : op[t] \notin LockingOps
        /\ last.op \in LockingOps => last.t = Creator

\* the positions inside unlock_shared and unlock_exclusive, with the number of
\* steps the function still has to take from there
UnlockRank(l) ==
    CASE l \in {"us_store", "ue_store"} -> 2
      [] l \in {"us_unpark", "ue_unpark"} -> 1
      [] OTHER -> 0

\* thread t is inside the drop of a guard
Unlocking(t) == op[t] \in {"drop_read", "drop_write"} /\ pc[t] # "ub"

\* C15: on every backend unlock_shared and unlock_exclusive take a bounded
\* number of steps of their own and never park or loop (each step of the
\* function brings it nearer to its return, at most three in all), and with
\* SyncLock only the creator thread is ever parked, and only inside
\* lock_shared_slow or lock_exclusive_slow
C15_UnlockBoundedOnlyCreatorParks ==
    /\ [](\A t \in Threads : Unlocking(t) => UnlockRank(pc[t]) > 0)
    /\ [][\A t \in Threads :
             (Unlocking(t) /\ pc'[t] # pc[t]) =>
                 (pc'[t] = "ub" \/ UnlockRank(pc'[t]) < UnlockRank(pc[t]))]_vars
    /\ [](\A t \in Others : pc[t] \notin ParkLabels)
    /\ [](pc[Creator] \in ParkLabels => op[Creator] \in {"read", "clone", "write", "drop_cell"})

\* operations that take, hold or give back the exclusive lock
ExclusiveOps == {"write", "try_write", "try_get_mut", "drop_cell", "drop_write"}

\* C16: with SyncLock a lock_shared whose fetch_add returned EXCLUSIVE_FLAG - 2
\* panics with "lock counter overflow", builds no guard and takes its own
\* increment back, so that while nothing but shared acquisitions and releases
\* goes on (no write guard, no exclusive operation under way) neither the
\* exclusive bit nor the parked bit of the counter is ever set
C16_OverflowPolicy ==
    /\ [][\A t \in Threads :
             (/\ backend = "Sync"
              /\ pc[t] = "lock_shared_slow"
              /\ old[t] = EXCLUSIVE_FLAG - 2
              /\ pc'[t] \notin {"lock_shared_slow", "ub"}) =>
                 /\ last' = Event(t, op[t], "lock counter overflow", EXCLUSIVE_FLAG - 2)
                 /\ count' = WSub(count, 1)
                 /\ rg' = rg]_vars
    /\ []((/\ backend = "Sync"
           /\ cell = "alive"
           /\ TotalWrite = 0
           /\ \A t \in Threads : op[t] \notin ExclusiveOps) =>
              count < EXCLUSIVE_FLAG)

\* the operations built on try_lock_shared and try_lock_exclusive
TryOps == {"try_read", "try_write", "try_get_mut"}

\* the counter value from which on a shared acquisition is refused
ShareLimit ==
    CASE backend = "Local" -> EXCLUSIVE - 1
      [] backend = "Atomic" -> Atomic_EXCLUSIVE_FLAG \div 2
      [] backend = "Sync" -> EXCLUSIVE_FLAG - 2

\* thread t makes the deciding access of a try operation in this step, and
\* the operation is going to fail
TryFails(t, o) ==
    /\ Idle(t)
    /\ \/ op'[t] = o /\ pc'[t] \in {"atomic_revert", "tls_revert"}
       \/ pc'[t] = "idle" /\ last'.t = t /\ last'.op = o /\ last'.res = "fail"

\* ... and the operation is going to succeed
TrySucceeds(t, o) ==
    /\ Idle(t)
    /\ \/ op'[t] = o /\ pc'[t] \in {"tle_store", "tgm_unlock"}
       \/ pc'[t] = "idle" /\ last'.t = t /\ last'.op = o /\ last'.res = "ok"

ReadersIn(v) ==
    CASE backend = "Local" -> IF v = EXCLUSIVE THEN 0 ELSE v
      [] backend = "Atomic" -> v % Atomic_EXCLUSIVE_FLAG
      [] backend = "Sync" -> v % EXCLUSIVE_FLAG

\* thread t's clone() returns the new guard in this step
CloneReturns(t) ==
    /\ pc[t] # "ub"
    /\ pc'[t] = "idle"
    /\ last' = Event(t, "clone", "ok", last'.obs)
    /\ rg'[t] # rg[t]

\* C18: on every backend a clone of a read guard that returns has made exactly
\* one shared acquisition: the counter it incremented encodes one reader more
\* than before, the thread owns one read guard more, nothing else changes (not
\* the value, not the other guards); and the drop of the cell returns only
\* when no guard, original or clone, is left
C18_CloneIsOneAcquisition ==
    /\ [][\A t \in Threads :
             CloneReturns(t) =>
                 /\ ReadersIn(WAdd(last'.obs, 1)) = ReadersIn(last'.obs) + 1
                 /\ rg' = [rg EXCEPT ![t] = @ + 1]
                 /\ wg' = wg
                 /\ value' = value /\ nrep' = nrep /\ cell' = cell]_vars
    /\ []((last.op = "drop_cell" /\ last.res = "ok") => LiveGuards = 0)

\* the state of the abstract guarded cell, from the guards that are live
AbstractState ==
    IF TotalWrite > 0 THEN <<"ExclusivelyBorrowed", 0>>
    ELSE IF TotalRead > 0 THEN <<"SharedBorrowed", TotalRead>>
    ELSE <<"Unborrowed", 0>>

\* the abstract state the value of the counter stands for
CounterState ==
    IF count = 0 THEN <<"Unborrowed", 0>>
    ELSE IF count = Sentinel THEN <<"ExclusivelyBorrowed", 0>>
    ELSE <<"SharedBorrowed", count>>

\* no thread is inside a lock operation and the lock has not been torn down
Quiescent == cell = "alive" /\ \A t \in Threads : Idle(t)

\* the transitions of the abstract guarded cell
AbstractTransition(s, t) ==
    \/ s = <<"Unborrowed", 0>> /\ t = <<"SharedBorrowed", 1>>
    \/ s[1] = "SharedBorrowed" /\ t = <<"SharedBorrowed", s[2] + 1>>
    \/ s = <<"SharedBorrowed", 1>> /\ t = <<"Unborrowed", 0>>
    \/ s[1] = "SharedBorrowed" /\ s[2] > 1 /\ t = <<"SharedBorrowed", s[2] - 1>>
    \/ s = <<"Unborrowed", 0>> /\ t = <<"ExclusivelyBorrowed", 0>>
    \/ s = <<"ExclusivelyBorrowed", 0>> /\ t = <<"Unborrowed", 0>>

\* C19: every backend refines the abstract guarded cell: whenever no lock
\* operation is in progress the counter is 0, n or the exclusive sentinel
\* exactly when the abstract state is Unborrowed, SharedBorrowed(n) or
\* ExclusivelyBorrowed; every step that changes the abstract state is one of its
\* transitions (never SharedBorrowed <-> ExclusivelyBorrowed, never two write
\* guards); and the teardown completes from Unborrowed only, as an exclusive
\* acquisition that is not released
C19_RefinesGuardedCell ==
    /\ [](Quiescent => CounterState = AbstractState)
    /\ [][AbstractState' # AbstractState =>
              AbstractTransition(AbstractState, AbstractState')]_vars
    /\ []((last.op = "drop_cell" /\ last.res = "ok") =>
              (LiveGuards = 0 /\ count = Sentinel))

Encoding(v) ==
    IF ExclusivelyHeld(v) THEN "exclusive"
    ELSE IF ReadersIn(v) > 0 THEN "shared"
    ELSE "unlocked"

\* positions right before a plain store to the counter (AtomicUsize::store)
StoreLabels == {"le_store", "tle_store", "les_store", "lss_store", "us_store", "ue_store"}

\* this step of thread t is a plain store: the value written does not come from
\* the same atomic operation as the value that was tested
PlainStore(t) == pc[t] \in StoreLabels /\ pc'[t] # pc[t] /\ pc'[t] # "ub"

Justified(t) ==
    CASE pc[t] \in {"le_store", "tle_store", "lss_store"} -> {0}
      [] pc[t] = "les_store" -> {0, PARKED_FLAG}
      [] pc[t] \in {"us_store", "ue_store"} -> {PARKED_FLAG}
      [] OTHER -> {}

WakeCheck(t) == pc[t] \in {"lss_load", "les_load"} /\ pc'[t] # pc[t] /\ pc'[t] # "ub"

SharedAbortDecided(t) == pc[t] = "idle" /\ pc'[t] = "atomic_revert"

\* an exclusive request (compare_exchange) fails in this step
ExclusiveAborts ==
    /\ last'.op \in {"write", "try_write", "try_get_mut", "drop_cell"}
    /\ last'.res \in {"locked", "fail"}

\* C24: the abort decision of AtomicLock is race-free: whatever the other
\* threads do, a shared request gives up (lock_shared panics, try_lock_shared
\* returns false) only if a write guard is live at the instant of its
\* fetch_add, an exclusive request only if some guard is live at the instant of
\* its compare_exchange; and no thread ever parks
C24_AbortOnlyOnConflict ==
    /\ [][backend = "Atomic" =>
              /\ \A t \in Threads : SharedAbortDecided(t) => TotalWrite = 1
              /\ ExclusiveAborts => LiveGuards > 0]_vars
    /\ [](backend = "Atomic" =>
              \A t \in Threads : pc[t] \notin ParkLabels \cup {"lock_shared_slow", "lock_exclusive_slow"})

\* positions inside the second half of a release: store(0), owner.unpark()
ReleaseLabels == {"us_store", "us_unpark", "ue_store", "ue_unpark"}

\* the creator is parked, or has read a nonzero counter after a wake-up and is
\* about to park again
ParkedOrAboutTo ==
    \/ pc[Creator] \in {"lss_park", "les_park"}
    \/ pc[Creator] \in {"lss_load", "les_load"} /\ count # 0

\* the creator waits and nothing is left that would wake it
Stuck ==
    /\ backend = "Sync"
    /\ cell = "alive"
    /\ ParkedOrAboutTo
    /\ LiveGuards = 0
    /\ \A t \in Threads : pc[t] \notin ReleaseLabels
    /\ ~token[Creator]

SlowLabels ==
    {"lock_shared_slow", "lss_park", "lss_load", "lss_store",
     "lock_exclusive_slow", "les_park", "les_load", "les_store"}

\* the operations that call lock_shared or try_lock_shared
SharedOps == {"read", "try_read", "clone"}

\* C26: with SyncLock the parked bit of the counter is set only while the
\* creator thread is inside lock_shared_slow or lock_exclusive_slow; the value
\* that the fetch_add of lock_shared or try_lock_shared returns never has the
\* parked bit (the debug assertion after the fetch_add holds); and at most one
\* thread is parked on the lock
C26_ParkedBit ==
    backend = "Sync" =>
        /\ (cell = "alive" /\ count >= PARKED_FLAG) => pc[Creator] \in SlowLabels
        /\ \A t \in Threads :
               (op[t] \in SharedOps /\ pc[t] \in {"lock_shared_slow", "tls_revert"}) =>
                   old[t] < PARKED_FLAG
        /\ (last.op \in SharedOps /\ last.res # "step") => last.obs < PARKED_FLAG
        /\ Cardinality({t \in Threads : pc[t] \in ParkLabels}) <= 1

\* a write guard is dropped in this step: unlock_exclusive makes its fetch_sub
WriteGuardDropped == cell = "alive" /\ TotalWrite' < TotalWrite

SlowNoOverflow(t) ==
    /\ backend = "Sync"
    /\ cell = "alive"
    /\ pc[t] = "lock_shared_slow"
    /\ old[t] # EXCLUSIVE_FLAG - 2

\* C28: whenever lock_shared of SyncLock enters the slow path without overflow
\* the value its fetch_add had read is exactly EXCLUSIVE_FLAG, a write guard
\* being live at that moment or dropped since; and when the compare_exchange to
\* the parked encoding fails the counter is exactly 1: the write guard was
\* dropped in between and the caller holds the only shared slot
C28_SlowPathValues ==
    /\ [](\A t \in Threads : SlowNoOverflow(t) => old[t] = EXCLUSIVE_FLAG)
    /\ [](\A t \in Threads :
              (SlowNoOverflow(t) /\ count # EXCLUSIVE_FLAG + 1) =>
                  (count = 1 /\ LiveGuards = 0))
    /\ [](\A t \in Threads :
              (SlowNoOverflow(t) /\ count = EXCLUSIVE_FLAG + 1) => TotalWrite = 1)

\* a read guard is dropped in this step: unlock_shared makes its decrement
ReadGuardDropped == cell = "alive" /\ TotalRead' < TotalRead

\* C29: whenever a live read guard is dropped, on every backend, the counter
\* value unlock_shared sees has the exclusive sentinel or flag clear and a
\* reader count of at least 1; with SyncLock the releasing thread goes on to
\* store 0 and to unpark the creator exactly when that value is
\* PARKED_FLAG | 1: it is the last reader and the creator waits for the
\* exclusive lock
C29_UnlockSharedValues ==
    /\ [][ReadGuardDropped =>
              /\ ~ExclusivelyHeld(count)
              /\ ReadersIn(count) >= 1
              /\ count' = WSub(count, 1)
              /\ backend = "Sync" =>
                     ((\E t \in Threads : pc[t] # "us_store" /\ pc'[t] = "us_store")
                          <=> count = PARKED_FLAG_P1)
              /\ (backend = "Sync" /\ count = PARKED_FLAG_P1) =>
                     (TotalRead = 1 /\ pc[Creator] \in {"les_park", "les_load"})]_vars
    /\ [](\A t \in Threads : pc[t] \in {"us_store", "us_unpark"} => old[t] = PARKED_FLAG_P1)
    /\ [][\A t \in Threads :
              /\ (pc[t] = "us_store" /\ pc'[t] = "us_unpark") => count' = 0
              /\ (pc[t] = "us_unpark" /\ pc'[t] = "idle") => token'[Creator]]_vars

\* C30: the counter bound of LocalLock: lock_shared and try_lock_shared refuse
\* (panic, false) when the counter is the exclusive sentinel or one below it and
\* succeed otherwise, so that shared acquisitions alone never make the counter
\* equal to the sentinel (without a write guard it is the number of read
\* guards), and a shared release never sees the sentinel
C30_LocalCounterBound ==
    backend = "Local" =>
        /\ (last.op \in SharedOps /\ last.res # "step") =>
               (last.res = "ok" <=> last.obs < EXCLUSIVE - 1)
        /\ (last.op \in SharedOps /\ last.res \in {"deadlock", "fail"}) => count = last.obs
        /\ TotalWrite = 0 => (count = TotalRead /\ count < EXCLUSIVE)
        /\ last.op = "drop_read" => (last.obs # EXCLUSIVE /\ last.obs >= 1)

\* with sentinel - 1 read guards live, read() has been refused
C30_Witness ==
    /\ backend = "Local"
    /\ TotalRead = EXCLUSIVE - 1
    /\ count = EXCLUSIVE - 1
    /\ last = Event(Creator, "read", "deadlock", EXCLUSIVE - 1)

\* the most read guards AtomicLock hands out
Atomic_MaxShared == Atomic_EXCLUSIVE_FLAG \div 2

\* C31: the counter bound of AtomicLock: a shared acquisition succeeds exactly
\* when the previous counter value is below EXCLUSIVE_FLAG / 2, so there are
\* never more than EXCLUSIVE_FLAG / 2 read guards; with fewer than
\* EXCLUSIVE_FLAG / 2 threads the speculative increments never set the
\* exclusive flag (without a write guard the counter is the read guards plus
\* the increments in flight, below the flag) and never wrap the counter (with a
\* write guard it is the flag plus the increments in flight)
C31_AtomicCounterBound ==
    backend = "Atomic" =>
        /\ (last.op \in SharedOps /\ last.res # "step") =>
               (last.res = "ok" <=> last.obs < Atomic_MaxShared)
        /\ TotalRead <= Atomic_MaxShared
        /\ TotalWrite = 0 =>
               (count = TotalRead + InFlight /\ count < Atomic_EXCLUSIVE_FLAG)
        /\ TotalWrite = 1 =>
               (count = Atomic_EXCLUSIVE_FLAG + InFlight /\ TotalRead = 0)

\* EXCLUSIVE_FLAG / 2 read guards are live and every thread is inside a shared
\* acquisition that will fail: the counter is as high as shared requests get it
C31_Witness ==
    /\ backend = "Atomic"
    /\ TotalRead = Atomic_MaxShared
    /\ \A t \in Threads : pc[t] = "atomic_revert"
    /\ count = Atomic_MaxShared + NOther + 1

\* the calls that are to leave the lock as they found it
FrameOps == {"get", "fmt", "try_get_mut"}

\* the value the counter had when the creator made the call it is in: the
\* counter itself while the call has not begun, afterwards the value its first
\* access to the counter read
CallValue == IF Idle(Creator) THEN count ELSE old[Creator]

\* C32: Cryo::get, CryoMut::try_get_mut (whether it returns Some or None) and
\* the Debug formatting of a CryoMut leave the counter equal to its value
\* before the call, no other thread touching the lock meanwhile: try_get_mut
\* releases the exclusive lock it took, fmt the read guard it took, and a fmt
\* that could not take one ("<locked>") has taken its attempt back; the guards
\* of the caller are the same afterwards, so the counter still stands for them
C32_FrameOfGetFmtTryGetMut ==
    /\ [][(last'.op \in FrameOps /\ Idle(Creator)') => count' = CallValue]_vars
    /\ [](pc[Creator] = "fmt_unlock" => old[Creator] = WSub(count, 1))
    /\ [](pc[Creator] = "tgm_unlock" => (old[Creator] = 0 /\ count = Sentinel))
    /\ []((last.op = "fmt" /\ last.res = "fail") => TotalWrite = 1 \/ TotalRead >= ShareLimit)
    /\ []((cell = "alive" /\ Idle(Creator)) =>
              count = IF TotalWrite = 1 THEN Sentinel ELSE TotalRead)

\* fmt has printed the data while the caller held a read guard of its own, and
\* the counter is back at one reader
C32_Witness ==
    /\ last = Event(Creator, "fmt", "ok", 2)
    /\ rg[Creator] = 1
    /\ count = 1

\* the cause of the failure the last event reports, from the counter value the
\* operation read: a conflicting lock (the exclusive sentinel for a shared
\* request, anything but 0 for an exclusive one), or a reader count at its limit
Contended ==
    IF last.op \in SharedOps THEN ExclusivelyHeld(last.obs) ELSE last.obs # 0

Exhausted ==
    /\ last.op \in SharedOps
    /\ ~ExclusivelyHeld(last.obs)
    /\ last.obs >= ShareLimit

\* the panic message of each backend
ReportOf ==
    CASE backend = "Local" -> "deadlock"
      [] backend = "Atomic" -> "locked"
      [] backend = "Sync" -> "lock counter overflow"

\* C33 as stated: every panic of a backend is either "deadlock", raised by
\* LocalLock or AtomicLock for contention, or "counter overflow", raised for the
\* exhaustion of the shared count, and neither cause is reported under the
\* other's name
C33_ReportNames ==
    last.res \notin {"ok", "fail", "step"} =>
        \/ last.res = "deadlock" /\ backend \in {"Local", "Atomic"} /\ Contended
        \/ last.res = "lock counter overflow" /\ Exhausted

\* C33 amended: each backend has one panic message, "deadlock" for LocalLock,
\* "locked" for AtomicLock, "lock counter overflow" for SyncLock; LocalLock and
\* AtomicLock raise theirs for contention and for the exhaustion of the shared
\* count alike, SyncLock panics for exhaustion only (lock_shared reading
\* EXCLUSIVE_FLAG - 2) and never for contention
C33_ReportPerBackend ==
    (last.res # "ok" /\ last.res # "fail" /\ last.res # "step") =>
        /\ last.res = ReportOf
        /\ Contended \/ Exhausted
        /\ backend = "Sync" => (Exhausted /\ last.obs = EXCLUSIVE_FLAG - 2)

\* read() of AtomicLock has panicked with "locked" although no write guard was
\* in the way: the reader count was at its limit
C33_Witness ==
    /\ backend = "Atomic"
    /\ last.op = "read" /\ last.res = "locked"
    /\ last.obs = Atomic_MaxShared
    /\ TotalRead = Atomic_MaxShared

C35_BackendsAgree ==
    [][LET \* the smallest of the reader counts at which a backend refuses a
           \* shared lock for overflow: a sequence of calls stays below the
           \* thresholds of all three backends while it makes its shared
           \* requests with fewer readers than this
           Limits == {EXCLUSIVE - 1, Atomic_EXCLUSIVE_FLAG \div 2, EXCLUSIVE_FLAG - 2}
           CommonShareLimit == CHOOSE m \in Limits : \A n \in Limits : m <= n
           \* the results of the reference lock, which knows the readers r and
           \* the writer w and nothing of the backend
           RefTryShared(r, w) == w = 0
           RefTryExclusive(r, w) == r = 0 /\ w = 0
           \* the counter value by which the backend in use writes the state
           EncodeState(r, w) == IF w > 0 THEN Sentinel ELSE r
           \* a try_lock_shared / try_lock_exclusive call of the creator
           \* returns false in this step
           TrySharedFails == last'.op \in {"try_read", "fmt"} /\ last'.res = "fail"
           TryExclusiveFails ==
               last'.op \in {"try_write", "try_get_mut"} /\ last'.res = "fail"
       IN /\ rg'[Creator] = rg[Creator] + 1 => RefTryShared(rg[Creator], wg[Creator])
          /\ (TrySharedFails /\ rg[Creator] < CommonShareLimit)
               => ~RefTryShared(rg[Creator], wg[Creator])
          /\ wg'[Creator] = wg[Creator] + 1 => RefTryExclusive(rg[Creator], wg[Creator])
          /\ TryExclusiveFails => ~RefTryExclusive(rg[Creator], wg[Creator])
          /\ (Idle(Creator)' /\ cell' = "alive")
               => count' = EncodeState(rg'[Creator], wg'[Creator])]_vars

\* on SyncLock try_read has returned None under a write guard, as it does on the
\* other backends, and the counter is the exclusive sentinel again
C35_Witness ==
    /\ backend = "Sync"
    /\ last = Event(Creator, "try_read", "fail", EXCLUSIVE_FLAG)
    /\ wg[Creator] = 1
    /\ count = EXCLUSIVE_FLAG

\* the function of the Lock trait an operation of the cell or of a guard calls
LockCall(o) ==
    CASE o \in {"read", "clone"} -> "lock_shared"
      [] o \in {"try_read", "fmt"} -> "try_lock_shared"
      [] o = "drop_read" -> "unlock_shared"
      [] o \in {"write", "drop_cell"} -> "lock_exclusive"
      [] o \in {"try_write", "try_get_mut"} -> "try_lock_exclusive"
      [] o = "drop_write" -> "unlock_exclusive"
      [] OTHER -> "none"

\* what SyncLock has made of the position, the counter, the value read, the
\* tokens and the result in this step of thread t
PostState(t) ==
    IF pc'[t] \in {"idle", "tgm_unlock", "fmt_unlock"}
    THEN RawDone(count', token', IF pc'[t] = "idle" THEN last'.res ELSE "ok")
    ELSE RawState(pc'[t], count', old'[t], token', "step")

\* C36: StdRawRwLock and SyncLock are the same state machine: both start with
\* the counter at 0, every step SyncLock takes (a call of lock, try-lock or
\* unlock, a step inside one, a return of park, an unpark) is a step of
\* StdRawRwLock from the same counter, position and tokens to the same counter,
\* position, tokens and result, and every step StdRawRwLock can take from
\* inside a function is one SyncLock can take
C36_SameStateMachine ==
    /\ count = Raw_new
    /\ [][LET \* the operation thread t is in during this step
              StepOp(t) == IF pc'[t] = "idle" THEN last'.op ELSE op'[t]
              \* where thread t is in SyncLock before this step: inside a
              \* function, or at the call of one
              PreLabel(t) ==
                  CASE pc[t] \in RawLabels -> pc[t]
                    [] pc[t] = "tgm_unlock" -> "unlock_exclusive"
                    [] pc[t] = "fmt_unlock" -> "unlock_shared"
                    [] OTHER -> LockCall(StepOp(t))
              \* this step is a step of thread t inside SyncLock
              LockStep(t) ==
                  /\ backend = "Sync"
                  /\ pc[t] # "ub" /\ pc'[t] # "ub"
                  /\ PreLabel(t) # "none"
                  /\ \/ pc'[t] # pc[t]
                     \/ Idle(t) /\ last'.t = t /\ last'.op # "none"
          IN \A t \in Threads :
                LockStep(t) =>
                    PostState(t) \in RawNext(t, PreLabel(t), count, old[t], token)]_vars
    /\ [](\A t \in Threads :
            (backend = "Sync" /\ cell = "alive" /\ pc[t] \in RawLabels) =>
                \A s \in RawNext(t, pc[t], count, old[t], token) :
                    ENABLED ((SyncSteps(t) \/ SyncSpurious(t)) /\ PostState(t) = s))

\* the creator's read() has gone through lock_shared_slow: parked under a write
\* guard, woken by its release, the counter stored as 1
C36_Witness ==
    /\ backend = "Sync"
    /\ last = Event(Creator, "read", "ok", EXCLUSIVE_FLAG)
    /\ count = 1
    /\ rg[Creator] = 1
    /\ TotalWrite = 0

TypeOK ==
    /\ backend \in Backends
    /\ count \in 0 .. usize_max
    /\ cell \in {"alive", "destroyed"}
    /\ \A t \in Threads : rg[t] \in 0 .. usize_max /\ wg[t] \in 0 .. 1

====
